---- MODULE Spec2Model ----
(***************************************************************************)
(* The Databricks command MCP server of src/vibe-databricks/tools/         *)
(* mcp_tools.py: the JSON-RPC handler message_endpoint, the four context   *)
(* tools it dispatches to (create_context, execute_command_with_context,   *)
(* destroy_context, execute_databricks_command) and a metadata tool, run   *)
(* against a cluster API whose answers are chosen nondeterministically.    *)
(***************************************************************************)
EXTENDS Integers, Sequences, FiniteSets, TLC

(***************************************************************************)
(* Bounds of the model.                                                    *)
(***************************************************************************)
\* Connections on which a client can post one request each.
MaxConn == 2
TwinLatency == 30
\* Latency of a slow status call, in seconds (a fast one takes 0).
SlowCall == 121
\* Saturation point of the per-invocation call counters.
CountCap == 70

(***************************************************************************)
(* Program constants.                                                      *)
(***************************************************************************)
\* timeout = 120
Timeout == 120
\* time.sleep(2)
Interval == 2
\* "code": -32601
MethodNotFound == -32601
\* "code": -32603
InternalError == -32603

Conns == 1..MaxConn
\* No handler is running on the event loop.
Free == 0
\* Python's None, and a key that a dict does not have.
None == "None"
Absent == "Absent"

(***************************************************************************)
(* Request bodies a client can post to /message.                           *)
(***************************************************************************)
RequestIds == {"id1"}
KnownMethods == {"initialize", "tools/list", "tools/call"}
Methods == KnownMethods \cup {"ping", Absent}
ContextTools == {"create_context", "execute_command_with_context",
                 "destroy_context", "databricks_command"}
MetadataTools == {"list_catalogs", "get_catalog", "list_schemas", "get_schema",
                  "list_tables", "get_table", "create_table", "create_schema",
                  "update_schema", "delete_schema", "delete_table"}
\* The names of the if/elif chain of tools/call.
DispatchedTools == ContextTools \cup MetadataTools
\* A catalog that leaves one tool out.
ToolCatalogShort == {"create_context", "execute_command_with_context", "destroy_context",
                     "databricks_command", "list_catalogs", "get_catalog", "list_schemas",
                     "get_schema", "list_tables", "get_table", "create_table",
                     "create_schema", "update_schema", "delete_schema"}
\* The names tools/list advertises.
ToolCatalog == {"create_context", "execute_command_with_context", "destroy_context",
                "databricks_command", "list_catalogs", "get_catalog", "list_schemas",
                "get_schema", "list_tables", "get_table", "create_table",
                "create_schema", "update_schema", "delete_schema", "delete_table"}
\* "required" of the inputSchema that tools/list gives for a context tool.
Required(name) ==
  CASE name = "create_context" -> {"cluster_id"}
    [] name = "execute_command_with_context" -> {"cluster_id", "context_id", "code"}
    [] name = "destroy_context" -> {"cluster_id", "context_id"}
    [] name = "databricks_command" -> {"cluster_id", "language", "code"}
\* The names a client sends: those, a name the server does not know, and
\* no name at all.
ToolNames == DispatchedTools \cup {"bogus_tool", Absent}
CtxIds == {"x1", "x2", "x3"}

\* An "arguments" object, by the keys the tools read.
Args(cluster, context, language, code, new_name, comment, owner) ==
  [cluster_id |-> cluster, context_id |-> context, language |-> language,
   code |-> code, new_name |-> new_name, comment |-> comment, owner |-> owner]
NoArguments == Args(Absent, Absent, Absent, Absent, Absent, Absent, Absent)
\* The keys the metadata tools read, in an object that has them all.
MetadataArguments ==
  [catalog_name |-> "main", schema_name |-> "s1", table_name |-> "t2",
   full_schema_name |-> "main.s2", full_table_name |-> "main.s1.t1"]
    @@ Args(Absent, Absent, Absent, Absent, Absent, "a comment", Absent)
\* Every key of the context tools present; no language; another cluster
\* than the one of context "x1"; a schema update; the metadata keys; the empty
\* object.
ArgumentObjects ==
  { Args("c1", "x1", "scala", "code", Absent, Absent, Absent),
    Args("c1", "x1", Absent, "code", Absent, Absent, Absent),
    Args("c2", "x1", "scala", "code", Absent, Absent, Absent),
    Args(Absent, Absent, Absent, Absent, "s2", Absent, "me"),
    MetadataArguments,
    NoArguments }

\* kind: what request.json() makes of the body. params, arguments: "absent",
\* "nonobject" (a JSON value that is no object, null included) or "object".
Body(kind, id, method, params, name, arguments, args) ==
  [kind |-> kind, id |-> id, method |-> method, params |-> params,
   name |-> name, arguments |-> arguments, args |-> args]

MalformedBodies ==
  { Body("notjson", Absent, Absent, "absent", Absent, "absent", NoArguments),
    Body("nonobject", Absent, Absent, "absent", Absent, "absent", NoArguments) }
PlainBodies ==
  { Body("object", id, m, p, Absent, "absent", NoArguments) :
      id \in RequestIds \cup {Absent}, m \in Methods, p \in {"absent", "nonobject"} }
CallBodies ==
  { Body("object", id, "tools/call", "object", n, "absent", NoArguments) :
      id \in RequestIds \cup {Absent}, n \in ToolNames }
  \cup
  { Body("object", id, "tools/call", "object", n, "nonobject", NoArguments) :
      id \in RequestIds \cup {Absent}, n \in ToolNames }
  \cup
  { Body("object", id, "tools/call", "object", n, "object", a) :
      id \in RequestIds \cup {Absent}, n \in ToolNames, a \in ArgumentObjects }
RequestBodies == MalformedBodies \cup PlainBodies \cup CallBodies

(***************************************************************************)
(* Answers of the cluster API.                                             *)
(***************************************************************************)
\* str(e) of the exception requests raises: no connection, or
\* raise_for_status() on a non-2xx answer.
FaultMsgs == {"ConnectionError", "HTTPError"}
\* A JSON value that is no string, as a status document can carry it in
\* "data": the number 0 and the boolean false. Strings stand for themselves.
JsonZero == "<int 0>"
JsonFalse == "<bool false>"
\* The "results" member of a status document.
Payload(rt, cause, summary, data) ==
  [resultType |-> rt, cause |-> cause, summary |-> summary, data |-> data]
NoResults == Payload(Absent, Absent, Absent, Absent)
ResultPayloads ==
  { NoResults,
    Payload("text", Absent, Absent, "42"),
    Payload("text", Absent, Absent, ""),
    Payload("text", Absent, Absent, JsonZero),
    Payload("text", Absent, Absent, JsonFalse),
    Payload("error", "NameError", "summary", Absent),
    Payload("error", Absent, "summary", Absent),
    Payload("error", Absent, Absent, Absent) }
TerminalStatuses == {"Finished", "Error", "Cancelled"}
StatusDocs ==
  { [status |-> "Running", results |-> NoResults] }
  \cup { [status |-> s, results |-> p] : s \in TerminalStatuses, p \in ResultPayloads }
NoStatus == [status |-> Absent, results |-> NoResults]
Latencies == {0, SlowCall}

(***************************************************************************)
(* The metadata API, a black box that keeps catalogs, schemas and tables.  *)
(***************************************************************************)
\* dict.get(key) before its default: a JSON object has the keys it has.
Field(object, key) == IF key \in DOMAIN object THEN object[key] ELSE Absent
\* The full name of b within a: "a.b".
Dotted(a, b) ==
  CASE a = "main" /\ b = "s1" -> "main.s1"
    [] a = "main" /\ b = "s2" -> "main.s2"
    [] a = "main" /\ b = "s3" -> "main.s3"
    [] a = "main.s1" /\ b = "t1" -> "main.s1.t1"
    [] a = "main.s1" /\ b = "t2" -> "main.s1.t2"
    [] OTHER -> "unnamed"
CatalogEntry(name, comment, owner) ==
  [name |-> name, full_name |-> name, comment |-> comment, owner |-> owner,
   created_at |-> "1700000000"]
SchemaEntry(catalog, name, comment, owner) ==
  [name |-> name, full_name |-> Dotted(catalog, name), catalog_name |-> catalog,
   comment |-> comment, owner |-> owner]
TableEntry(catalog, schema, name, type, comment, owner) ==
  [name |-> name, full_name |-> Dotted(Dotted(catalog, schema), name),
   catalog_name |-> catalog, schema_name |-> schema, table_type |-> type,
   comment |-> comment, owner |-> owner]
\* What the API keeps when the server starts: entries with a comment, with
\* an empty one and with none.
InitialStore ==
  [catalogs |-> << CatalogEntry("main", "the main catalog", "me"),
                   CatalogEntry("dev", Absent, "you") >>,
   schemas |-> << SchemaEntry("main", "s1", Absent, "me"),
                  SchemaEntry("main", "s2", "second", "you") >>,
   tables |-> << TableEntry("main", "s1", "t1", "MANAGED", "", "me") >>]
VARIABLES
  req,         \* req[r]: the body posted on connection r
  pc,          \* pc[r]: where the handler of r stands
  loop,        \* the connection whose handler runs on the event loop, or Free
  ret,         \* ret[r]: what the tool function returned (or raised)
  resp,        \* resp[r]: what message_endpoint returned
  context_id,  \* local of the tool function
  command_id,  \* local of the tool function
  start_time,  \* local of the tool function
  status,      \* local of the tool function: the last status document
  calls,       \* calls[r]: outbound calls and sleeps made for r, by kind
  now,         \* time.time()
  submitted,   \* submitted[r]: the body of the commands/execute request of r
  open,        \* the contexts open on the cluster ("x1" from an earlier call)
  store        \* the catalogs, schemas and tables of the metadata API

vars == <<req, pc, loop, ret, resp, context_id, command_id, start_time,
          status, calls, now, submitted, open, store>>
locals == <<context_id, command_id, start_time, status>>

(***************************************************************************)
(* Values the handler builds.                                              *)
(***************************************************************************)
\* A text is the sequence of the pieces its f-string joins.
TextItem(text) == [type |-> "text", text |-> text]
\* {"content": [{"type": "text", "text": ...}]}
Success(text) == [content |-> <<TextItem(text)>>]
\* A failure reported as a bare {"error": ...} object.
FailureBare(text) == [error |-> text]
\* {"content": [...], "isError": True}
Failure(text) == [content |-> <<TextItem(text)>>, isError |-> TRUE]
IsError(result) == "isError" \in DOMAIN result /\ result.isError

\* What a tool function gave back to message_endpoint: the value it
\* returned, with the exception its except clause caught on the way (None
\* when it caught none), or the exception it raised.
Returned(value, caught) == [kind |-> "return", value |-> value, caught |-> caught]
Raised(msg) == [kind |-> "raise", msg |-> msg]
NoReturn == [kind |-> "none"]

RpcResult(id, result) == [jsonrpc |-> "2.0", id |-> id, result |-> result]
RpcError(id, code, message) ==
  [jsonrpc |-> "2.0", id |-> id, error |-> [code |-> code, message |-> message]]
\* The handler itself raised: no JSON-RPC response is produced.
HandlerRaised(msg) == [raised |-> msg]
NoResponse == [kind |-> "none"]
IsRpcError(r) == "error" \in DOMAIN r
IsRpcResult(r) == "result" \in DOMAIN r
IsHandlerRaised(r) == "raised" \in DOMAIN r

\* dict.get(key) and dict.get(key, default)
Get(v) == IF v = Absent THEN None ELSE v
GetOr(v, default) == IF v = Absent THEN default ELSE v
\* request_data.get("id")
RequestId(b) == Get(b.id)

\* The json of a commands/execute request.
SubmitBody(cluster, context, language, code) ==
  [clusterId |-> cluster, contextId |-> context, language |-> language, command |-> code]
NoSubmit == SubmitBody(Absent, Absent, Absent, Absent)

\* cancel: requests to cancel a command, which no function sends. fault: how
\* many of the calls ended in a transport fault.
NoCalls == [create |-> 0, submit |-> 0, status |-> 0, sleep |-> 0,
            destroy |-> 0, cancel |-> 0, meta |-> 0, fault |-> 0]
Bump(n) == IF n < CountCap THEN n + 1 ELSE n
Called(r, kind) == [calls EXCEPT ![r][kind] = Bump(@)]
Faulted(r, kind) == [calls EXCEPT ![r][kind] = Bump(@), ![r].fault = Bump(@)]

\* The contexts open when the server starts, and the cluster on which an
\* earlier contexts/create opened them.
InitiallyOpen == {"x1"}
HomeCluster == "c1"

Init ==
  /\ req = [r \in Conns |-> Body("notjson", Absent, Absent, "absent", Absent, "absent", NoArguments)]
  /\ pc = [r \in Conns |-> "idle"]
  /\ loop = Free
  /\ ret = [r \in Conns |-> NoReturn]
  /\ resp = [r \in Conns |-> NoResponse]
  /\ context_id = [r \in Conns |-> None]
  /\ command_id = [r \in Conns |-> None]
  /\ start_time = [r \in Conns |-> 0]
  /\ status = [r \in Conns |-> NoStatus]
  /\ calls = [r \in Conns |-> NoCalls]
  /\ now = 0
  /\ submitted = [r \in Conns |-> NoSubmit]
  /\ open = InitiallyOpen
  /\ store = InitialStore

(***************************************************************************)
(* message_endpoint.                                                       *)
(***************************************************************************)
\* A client posts a body on an idle connection; connections are numbered in
\* the order in which they are taken.
Post(r, bodies) ==
  /\ pc[r] = "idle"
  /\ \A q \in Conns : q < r => pc[q] # "idle"
  /\ \E b \in bodies : req' = [req EXCEPT ![r] = b]
  /\ pc' = [pc EXCEPT ![r] = "arrived"]
  /\ UNCHANGED <<loop, ret, resp, locals, calls, now, submitted, open, store>>

\* An except clause that never reads the id of the request.
ExceptResponseNoId(b, msg) ==
  IF b.kind = "notjson" THEN RpcError(None, InternalError, <<msg>>)
  ELSE IF b.kind = "nonobject" THEN HandlerRaised("AttributeError")
  ELSE RpcError(None, InternalError, <<msg>>)
\* The except clause of message_endpoint: request_data is unbound when
\* request.json() raised, and request_data.get raises again, out of the
\* handler, when the body is no object.
ExceptResponse(b, msg) ==
  IF b.kind = "notjson" THEN RpcError(None, InternalError, <<msg>>)
  ELSE IF b.kind = "nonobject" THEN HandlerRaised("AttributeError")
  ELSE RpcError(RequestId(b), InternalError, <<msg>>)

\* The handler of r is scheduled: it runs once no other handler holds the
\* event loop, which a handler keeps until it returns (it never awaits
\* after reading the body).
Scheduled(r) == pc[r] = "arrived" /\ loop = Free

\* message_endpoint returns `response` without calling a tool function.
Answer(r, response) ==
  /\ resp' = [resp EXCEPT ![r] = response]
  /\ pc' = [pc EXCEPT ![r] = "done"]
  /\ UNCHANGED <<req, loop, ret, locals, calls, now, submitted, open, store>>

\* params = request_data.get("params", {}); tool_name = params.get("name");
\* arguments = params.get("arguments", {})
ToolName(b) == IF b.params = "object" THEN Get(b.name) ELSE None
ArgumentsKind(b) == IF b.params = "object" THEN b.arguments ELSE "absent"
Arguments(b) == IF ArgumentsKind(b) = "object" THEN b.args ELSE NoArguments
\* The tools whose call reads `arguments`: all but list_catalogs().
ReadsArguments(name) == name \in DispatchedTools \ {"list_catalogs"}

\* request.json() raises, or request_data.get("method") does.
BadBody(r) ==
  /\ Scheduled(r)
  /\ req[r].kind # "object"
  /\ Answer(r, ExceptResponse(req[r],
                 IF req[r].kind = "notjson" THEN "JSONDecodeError" ELSE "AttributeError"))

Initialize(r) ==
  /\ Scheduled(r)
  /\ req[r].kind = "object" /\ req[r].method = "initialize"
  /\ Answer(r, RpcResult(RequestId(req[r]),
                 [protocolVersion |-> "2024-11-05", serverInfo |-> "databricks-dev-mcp"]))

ToolsList(r) ==
  /\ Scheduled(r)
  /\ req[r].kind = "object" /\ req[r].method = "tools/list"
  /\ Answer(r, RpcResult(RequestId(req[r]), [tools |-> ToolCatalog]))

\* The answer to an unknown method with the code of an internal error.
UnknownMethodAsInternal(b) ==
  RpcError(RequestId(b), InternalError, <<"Unknown method: ", Get(b.method)>>)
\* The final else of the method chain.
UnknownMethodResponse(b) ==
  RpcError(RequestId(b), MethodNotFound, <<"Unknown method: ", Get(b.method)>>)

UnknownMethod(r) ==
  /\ Scheduled(r)
  /\ req[r].kind = "object" /\ req[r].method \notin KnownMethods
  /\ Answer(r, UnknownMethodResponse(req[r]))

\* tools/call: params.get or arguments.get raises AttributeError.
BadParams(r) ==
  /\ Scheduled(r)
  /\ req[r].kind = "object" /\ req[r].method = "tools/call"
  /\ \/ req[r].params = "nonobject"
     \/ /\ req[r].params = "object"
        /\ ReadsArguments(ToolName(req[r]))
        /\ ArgumentsKind(req[r]) = "nonobject"
  /\ Answer(r, ExceptResponse(req[r], "AttributeError"))

\* The answer to an unknown tool without the id of the request.
UnknownToolNoId(b) ==
  RpcError(None, MethodNotFound, <<"Unknown tool: ", ToolName(b)>>)
\* The final else of the tool chain.
UnknownToolResponse(b) ==
  RpcError(RequestId(b), MethodNotFound, <<"Unknown tool: ", ToolName(b)>>)

UnknownTool(r) ==
  /\ Scheduled(r)
  /\ req[r].kind = "object" /\ req[r].method = "tools/call"
  /\ req[r].params # "nonobject"
  /\ ToolName(req[r]) \notin DispatchedTools
  /\ Answer(r, UnknownToolResponse(req[r]))

\* The first statement of each tool function.
Entry(name) ==
  CASE name = "create_context" -> "cc_create"
    [] name = "execute_command_with_context" -> "ec_submit"
    [] name = "destroy_context" -> "dc_destroy"
    [] name = "databricks_command" -> "db_create"
    [] name = "update_schema" -> "us_check"
    [] name \in MetadataTools \ {"update_schema"} -> "md_request"

\* tools/call of a known tool: the handler calls the tool function, a
\* synchronous call that keeps the event loop until it returns.
CallTool(r) ==
  /\ Scheduled(r)
  /\ req[r].kind = "object" /\ req[r].method = "tools/call"
  /\ req[r].params = "object"
  /\ ToolName(req[r]) \in DispatchedTools
  /\ ReadsArguments(ToolName(req[r])) => ArgumentsKind(req[r]) # "nonobject"
  /\ loop' = r
  /\ pc' = [pc EXCEPT ![r] = Entry(ToolName(req[r]))]
  /\ UNCHANGED <<req, ret, resp, locals, calls, now, submitted, open, store>>

\* The tool function is back in message_endpoint: its value goes out under
\* "result"; an exception it raised goes to the except clause.
Respond(r) ==
  /\ pc[r] = "returned" /\ loop = r
  /\ resp' = [resp EXCEPT ![r] =
                IF ret[r].kind = "return"
                THEN RpcResult(RequestId(req[r]), ret[r].value)
                ELSE ExceptResponse(req[r], ret[r].msg)]
  /\ pc' = [pc EXCEPT ![r] = "done"]
  /\ loop' = Free
  /\ UNCHANGED <<req, ret, locals, calls, now, submitted, open, store>>

\* The arguments message_endpoint passes to the tool functions.
ArgClusterId(r) == Get(Arguments(req[r]).cluster_id)
ArgContextId(r) == Get(Arguments(req[r]).context_id)
ArgLanguage(r) == GetOr(Arguments(req[r]).language, "python")
ArgCode(r) == Get(Arguments(req[r]).code)

\* The tool function of r returns `value` from its try block.
Return(r, value) ==
  /\ ret' = [ret EXCEPT ![r] = Returned(value, None)]
  /\ pc' = [pc EXCEPT ![r] = "returned"]

\* A tool function without its except clause: the exception leaves it.
Uncaught(r, prefix, msg) ==
  /\ ret' = [ret EXCEPT ![r] = Raised(msg)]
  /\ pc' = [pc EXCEPT ![r] = "returned"]

\* `except Exception as e` of a tool function: the exception with message
\* msg, raised in the try block, becomes an error-flagged result whose text
\* is str(e) behind the function's prefix.
Catch(r, prefix, msg) ==
  /\ ret' = [ret EXCEPT ![r] = Returned(Failure(<<prefix, msg>>), msg)]
  /\ pc' = [pc EXCEPT ![r] = "returned"]

(***************************************************************************)
(* The cluster API, a black box: it answers a call with a value or with a  *)
(* transport fault, whatever the call.                                     *)
(***************************************************************************)
\* The ids contexts/create can answer with: a context that is not open.
FreshIds == CtxIds \ open

(***************************************************************************)
(* create_context and destroy_context.                                     *)
(***************************************************************************)
\* create_context reading the id under a key the answer does not have: the
\* context is open on the cluster and the function reports a KeyError.
CreateContextWrongKey(r) ==
  /\ pc[r] = "cc_create" /\ loop = r
  /\ \/ \E id \in FreshIds :
          /\ calls' = Called(r, "create")
          /\ open' = open \cup {id}
          /\ context_id' = [context_id EXCEPT ![r] = id]
          /\ Catch(r, "Error creating context: ", "KeyError")
     \/ \E msg \in FaultMsgs :
          /\ calls' = Faulted(r, "create")
          /\ Catch(r, "Error creating context: ", msg)
          /\ UNCHANGED <<open, context_id>>
  /\ UNCHANGED <<req, loop, resp, command_id, start_time, status, now, submitted, store>>
\* create_context with a pool: when a context is open it hands that one out
\* again, without a request.
CreateContextPooled(r) ==
  /\ pc[r] = "cc_create" /\ loop = r
  /\ IF open # {}
     THEN /\ \E id \in open :
               /\ context_id' = [context_id EXCEPT ![r] = id]
               /\ Return(r, Success(<<"Context created successfully! Context ID: ", id,
                                      " Cluster ID: ", ArgClusterId(r),
                                      " Language: ", ArgLanguage(r)>>))
          /\ UNCHANGED <<open, calls>>
     ELSE \/ \E id \in FreshIds :
               /\ calls' = Called(r, "create")
               /\ open' = open \cup {id}
               /\ context_id' = [context_id EXCEPT ![r] = id]
               /\ Return(r, Success(<<"Context created successfully! Context ID: ", id,
                                      " Cluster ID: ", ArgClusterId(r),
                                      " Language: ", ArgLanguage(r)>>))
          \/ \E msg \in FaultMsgs :
               /\ calls' = Faulted(r, "create")
               /\ Catch(r, "Error creating context: ", msg)
               /\ UNCHANGED <<open, context_id>>
  /\ UNCHANGED <<req, loop, resp, command_id, start_time, status, now, submitted, store>>
CreateContext(r) ==
  /\ pc[r] = "cc_create" /\ loop = r
  /\ \/ \E id \in FreshIds :
          /\ calls' = Called(r, "create")
          /\ open' = open \cup {id}
          /\ context_id' = [context_id EXCEPT ![r] = id]
          /\ Return(r, Success(<<"Context created successfully! Context ID: ", id,
                                 " Cluster ID: ", ArgClusterId(r),
                                 " Language: ", ArgLanguage(r)>>))
     \/ \E msg \in FaultMsgs :
          /\ calls' = Faulted(r, "create")
          /\ Catch(r, "Error creating context: ", msg)
          /\ UNCHANGED <<open, context_id>>
  /\ UNCHANGED <<req, loop, resp, command_id, start_time, status, now, submitted, store>>

DestroyContext(r) ==
  /\ pc[r] = "dc_destroy" /\ loop = r
  /\ \/ /\ ArgContextId(r) \in open
        /\ calls' = Called(r, "destroy")
        /\ open' = open \ {ArgContextId(r)}
        /\ Return(r, Success(<<"Context ", ArgContextId(r), " destroyed successfully!">>))
     \/ \E msg \in FaultMsgs :
          /\ calls' = Faulted(r, "destroy")
          /\ Catch(r, "Error destroying context: ", msg)
          /\ UNCHANGED open
  /\ UNCHANGED <<req, loop, resp, locals, now, submitted, store>>

(***************************************************************************)
(* The submit / poll / classify code that execute_command_with_context and *)
(* execute_databricks_command both contain.                                *)
(***************************************************************************)
\* Python's truth value of an argument or of a result's data.
Truthy(v) == v \notin {None, Absent, "", JsonZero, JsonFalse}
\* str(v): a string is itself, 0 is "0" and False is "False".
Str(v) ==
  CASE v = JsonZero -> "0"
    [] v = JsonFalse -> "False"
    [] OTHER -> v

\* The message with the summary before the cause.
ErrorMsgSummaryFirst(results) ==
  GetOr(results.summary, GetOr(results.cause, "Unknown error"))
\* results.get("cause", results.get("summary", "Unknown error"))
ErrorMsg(results) == GetOr(results.cause, GetOr(results.summary, "Unknown error"))

\* The code after the loop: the result of a terminal status document.
Classify(doc) ==
  IF doc.status = "Error" \/ GetOr(doc.results.resultType, "") = "error"
  THEN Failure(<<"Error: ", ErrorMsg(doc.results)>>)
  ELSE IF Truthy(Get(doc.results.data))
       THEN Success(<<Str(Get(doc.results.data))>>)
       ELSE Success(<<"Success (no output)">>)

\* A terminal test that leaves Finished out.
IsTerminalNoFinished(doc) == doc.status \in {"Error", "Cancelled"}
\* if status.get("status") in ["Finished", "Error", "Cancelled"]
IsTerminal(doc) == doc.status \in TerminalStatuses

TimedOut == Failure(<<"Error: Command timed out">>)

\* The deadline test with >= for >.
ExpiredAtBudget(t, start) == t - start >= Timeout
\* if time.time() - start_time > timeout
Expired(t, start) == t - start > Timeout

\* A submit without raise_for_status(): a fault goes unnoticed and the
\* function goes on to poll.
SubmitUnchecked(r, context, language, statusPc) ==
  /\ submitted' = [submitted EXCEPT ![r] =
                     SubmitBody(ArgClusterId(r), context, language, ArgCode(r))]
  /\ \/ /\ calls' = Called(r, "submit")
        /\ command_id' = [command_id EXCEPT ![r] = "cmd"]
        /\ start_time' = [start_time EXCEPT ![r] = now]
        /\ pc' = [pc EXCEPT ![r] = statusPc]
        /\ UNCHANGED ret
     \/ /\ calls' = Faulted(r, "submit")
        /\ start_time' = [start_time EXCEPT ![r] = now]
        /\ pc' = [pc EXCEPT ![r] = statusPc]
        /\ UNCHANGED <<ret, command_id>>
\* A submit that keeps the start of the loop in a variable of the module,
\* set by the first execution and read by all.
SubmitSharedClock(r, context, language, statusPc) ==
  /\ submitted' = [submitted EXCEPT ![r] =
                     SubmitBody(ArgClusterId(r), context, language, ArgCode(r))]
  /\ \/ /\ calls' = Called(r, "submit")
        /\ command_id' = [command_id EXCEPT ![r] = "cmd"]
        /\ start_time' = [start_time EXCEPT ![r] =
                            IF \E q \in Conns : command_id[q] # None
                            THEN start_time[CHOOSE q \in Conns : command_id[q] # None]
                            ELSE now]
        /\ pc' = [pc EXCEPT ![r] = statusPc]
        /\ UNCHANGED ret
     \/ \E msg \in FaultMsgs :
          /\ calls' = Faulted(r, "submit")
          /\ Catch(r, "Error: ", msg)
          /\ UNCHANGED <<command_id, start_time>>
\* requests.post(.../commands/execute): the command id, or a fault that the
\* except clause turns into the result.
Submit(r, context, language, statusPc) ==
  /\ submitted' = [submitted EXCEPT ![r] =
                     SubmitBody(ArgClusterId(r), context, language, ArgCode(r))]
  /\ \/ /\ calls' = Called(r, "submit")
        /\ command_id' = [command_id EXCEPT ![r] = "cmd"]
        /\ start_time' = [start_time EXCEPT ![r] = now]
        /\ pc' = [pc EXCEPT ![r] = statusPc]
        /\ UNCHANGED ret
     \/ \E msg \in FaultMsgs :
          /\ calls' = Faulted(r, "submit")
          /\ Catch(r, "Error: ", msg)
          /\ UNCHANGED <<command_id, start_time>>

\* A loop that takes a fault of the status call for one more Running answer
\* and polls again.
PollWithRetry(r, sleepPc, docs, lats, faults) ==
  /\ \E d \in lats :
       /\ now' = now + d
       /\ \/ \E msg \in faults :
               /\ calls' = Faulted(r, "status")
               /\ pc' = [pc EXCEPT ![r] = sleepPc]
               /\ UNCHANGED <<ret, status>>
          \/ \E doc \in docs :
               /\ calls' = Called(r, "status")
               /\ status' = [status EXCEPT ![r] = doc]
               /\ IF IsTerminal(doc)
                  THEN Return(r, Classify(doc))
                  ELSE IF Expired(now', start_time[r])
                       THEN Return(r, TimedOut)
                       ELSE /\ pc' = [pc EXCEPT ![r] = sleepPc]
                            /\ UNCHANGED ret
\* A loop that tests the deadline before the terminal status.
PollWithDeadlineFirst(r, sleepPc, docs, lats, faults) ==
  /\ \E d \in lats :
       /\ now' = now + d
       /\ \/ \E msg \in faults :
               /\ calls' = Faulted(r, "status")
               /\ Catch(r, "Error: ", msg)
               /\ UNCHANGED status
          \/ \E doc \in docs :
               /\ calls' = Called(r, "status")
               /\ status' = [status EXCEPT ![r] = doc]
               /\ IF Expired(now', start_time[r])
                  THEN Return(r, TimedOut)
                  ELSE IF IsTerminal(doc)
                       THEN Return(r, Classify(doc))
                       ELSE /\ pc' = [pc EXCEPT ![r] = sleepPc]
                            /\ UNCHANGED ret
\* One pass of the while loop up to the sleep: the status call, which takes
\* some time (one of `lats`) and answers with a document of `docs` or a fault
\* of `faults`, the terminal-status test and the deadline test.
PollWith(r, sleepPc, docs, lats, faults) ==
  /\ \E d \in lats :
       /\ now' = now + d
       /\ \/ \E msg \in faults :
               /\ calls' = Faulted(r, "status")
               /\ Catch(r, "Error: ", msg)
               /\ UNCHANGED status
          \/ \E doc \in docs :
               /\ calls' = Called(r, "status")
               /\ status' = [status EXCEPT ![r] = doc]
               /\ IF IsTerminal(doc)
                  THEN Return(r, Classify(doc))
                  ELSE IF Expired(now', start_time[r])
                       THEN Return(r, TimedOut)
                       ELSE /\ pc' = [pc EXCEPT ![r] = sleepPc]
                            /\ UNCHANGED ret

\* A loop that reads the clock before the status call and compares that
\* reading with the deadline after it.
PollStaleClock(r, sleepPc) ==
  /\ \E d \in Latencies :
       /\ now' = now + d
       /\ \/ \E msg \in FaultMsgs :
               /\ calls' = Faulted(r, "status")
               /\ Catch(r, "Error: ", msg)
               /\ UNCHANGED status
          \/ \E doc \in StatusDocs :
               /\ calls' = Called(r, "status")
               /\ status' = [status EXCEPT ![r] = doc]
               /\ IF IsTerminal(doc)
                  THEN Return(r, Classify(doc))
                  ELSE IF Expired(now, start_time[r])
                       THEN Return(r, TimedOut)
                       ELSE /\ pc' = [pc EXCEPT ![r] = sleepPc]
                            /\ UNCHANGED ret
\* The same against a cluster that may answer anything at any speed.
Poll(r, sleepPc) == PollWith(r, sleepPc, StatusDocs, Latencies, FaultMsgs)

\* A sleep across which the clock stands still.
SleepFrozen(r, statusPc) ==
  /\ calls' = Called(r, "sleep")
  /\ now' = now
  /\ pc' = [pc EXCEPT ![r] = statusPc]
\* time.sleep(2)
Sleep(r, statusPc) ==
  /\ calls' = Called(r, "sleep")
  /\ now' = now + Interval
  /\ pc' = [pc EXCEPT ![r] = statusPc]

(***************************************************************************)
(* execute_command_with_context.                                           *)
(***************************************************************************)
\* A submit that destroys the context when the call fails.
ExecSubmitClosing(r) ==
  /\ pc[r] = "ec_submit" /\ loop = r
  /\ submitted' = [submitted EXCEPT ![r] =
                     SubmitBody(ArgClusterId(r), ArgContextId(r), "python", ArgCode(r))]
  /\ \/ /\ calls' = Called(r, "submit")
        /\ command_id' = [command_id EXCEPT ![r] = "cmd"]
        /\ start_time' = [start_time EXCEPT ![r] = now]
        /\ pc' = [pc EXCEPT ![r] = "ec_status"]
        /\ UNCHANGED <<ret, open>>
     \/ \E msg \in FaultMsgs :
          /\ calls' = [calls EXCEPT ![r].submit = Bump(@), ![r].fault = Bump(@),
                                    ![r].destroy = Bump(@)]
          /\ open' = open \ {ArgContextId(r)}
          /\ Catch(r, "Error: ", msg)
          /\ UNCHANGED <<command_id, start_time>>
  /\ UNCHANGED <<req, loop, resp, context_id, status, now, store>>
\* A submit in the language the request names.
ExecSubmitArgLanguage(r) ==
  /\ pc[r] = "ec_submit" /\ loop = r
  /\ Submit(r, ArgContextId(r), ArgLanguage(r), "ec_status")
  /\ UNCHANGED <<req, loop, resp, context_id, status, now, open, store>>
ExecSubmit(r) ==
  /\ pc[r] = "ec_submit" /\ loop = r
  /\ Submit(r, ArgContextId(r), "python", "ec_status")
  /\ UNCHANGED <<req, loop, resp, context_id, status, now, open, store>>

\* A loop that posts commands/cancel before it returns the timed-out result.
ExecStatusCancelling(r) ==
  /\ pc[r] = "ec_status" /\ loop = r
  /\ \E d \in Latencies :
       /\ now' = now + d
       /\ \/ \E msg \in FaultMsgs :
               /\ calls' = Faulted(r, "status")
               /\ Catch(r, "Error: ", msg)
               /\ UNCHANGED status
          \/ \E doc \in StatusDocs :
               /\ status' = [status EXCEPT ![r] = doc]
               /\ IF IsTerminal(doc)
                  THEN calls' = Called(r, "status") /\ Return(r, Classify(doc))
                  ELSE IF Expired(now', start_time[r])
                       THEN /\ calls' = [calls EXCEPT ![r].status = Bump(@),
                                                      ![r].cancel = Bump(@)]
                            /\ Return(r, TimedOut)
                       ELSE /\ calls' = Called(r, "status")
                            /\ pc' = [pc EXCEPT ![r] = "ec_sleep"]
                            /\ UNCHANGED ret
  /\ UNCHANGED <<req, loop, resp, context_id, command_id, start_time, submitted, open, store>>
ExecStatus(r) ==
  /\ pc[r] = "ec_status" /\ loop = r
  /\ Poll(r, "ec_sleep")
  /\ UNCHANGED <<req, loop, resp, context_id, command_id, start_time, submitted, open, store>>

\* Two sleeps between two status calls.
ExecSleepTwice(r) ==
  /\ pc[r] = "ec_sleep" /\ loop = r
  /\ calls' = [calls EXCEPT ![r].sleep = Bump(Bump(@))]
  /\ now' = now + Interval + Interval
  /\ pc' = [pc EXCEPT ![r] = "ec_status"]
  /\ UNCHANGED <<req, loop, ret, resp, locals, submitted, open, store>>
ExecSleep(r) ==
  /\ pc[r] = "ec_sleep" /\ loop = r
  /\ Sleep(r, "ec_status")
  /\ UNCHANGED <<req, loop, ret, resp, locals, submitted, open, store>>

(***************************************************************************)
(* execute_databricks_command.                                             *)
(***************************************************************************)
\* A create step that goes on to submit after a fault of contexts/create.
OneShotCreateUnchecked(r) ==
  /\ pc[r] = "db_create" /\ loop = r
  /\ \/ \E id \in FreshIds :
          /\ calls' = Called(r, "create")
          /\ open' = open \cup {id}
          /\ context_id' = [context_id EXCEPT ![r] = id]
          /\ pc' = [pc EXCEPT ![r] = "db_submit"]
          /\ UNCHANGED ret
     \/ /\ calls' = Faulted(r, "create")
        /\ pc' = [pc EXCEPT ![r] = "db_submit"]
        /\ UNCHANGED <<ret, open, context_id>>
  /\ UNCHANGED <<req, loop, resp, command_id, start_time, status, now, submitted, store>>
OneShotCreate(r) ==
  /\ pc[r] = "db_create" /\ loop = r
  /\ \/ \E id \in FreshIds :
          /\ calls' = Called(r, "create")
          /\ open' = open \cup {id}
          /\ context_id' = [context_id EXCEPT ![r] = id]
          /\ pc' = [pc EXCEPT ![r] = "db_submit"]
          /\ UNCHANGED ret
     \/ \E msg \in FaultMsgs :
          /\ calls' = Faulted(r, "create")
          /\ Catch(r, "Error: ", msg)
          /\ UNCHANGED <<open, context_id>>
  /\ UNCHANGED <<req, loop, resp, command_id, start_time, status, now, submitted, store>>

OneShotSubmit(r) ==
  /\ pc[r] = "db_submit" /\ loop = r
  /\ Submit(r, context_id[r], ArgLanguage(r), "db_status")
  /\ UNCHANGED <<req, loop, resp, context_id, status, now, open, store>>

OneShotStatus(r) ==
  /\ pc[r] = "db_status" /\ loop = r
  /\ Poll(r, "db_sleep")
  /\ UNCHANGED <<req, loop, resp, context_id, command_id, start_time, submitted, open, store>>

\* A one-shot loop that polls again at once.
OneShotNoSleep(r) ==
  /\ pc[r] = "db_sleep" /\ loop = r
  /\ pc' = [pc EXCEPT ![r] = "db_status"]
  /\ UNCHANGED <<req, loop, ret, resp, locals, submitted, open, calls, now, store>>
OneShotSleep(r) ==
  /\ pc[r] = "db_sleep" /\ loop = r
  /\ Sleep(r, "db_status")
  /\ UNCHANGED <<req, loop, ret, resp, locals, submitted, open, store>>

(***************************************************************************)
(* The metadata tools: one request to the metadata API each.               *)
(***************************************************************************)
\* The prefix each function's except clause puts before str(e).
ErrorPrefix(name) ==
  CASE name = "create_schema" -> "Error creating schema: "
    [] name = "update_schema" -> "Error updating schema: "
    [] name = "delete_schema" -> "Error deleting schema: "
    [] name = "create_table" -> "Error creating table: "
    [] name = "delete_table" -> "Error deleting table: "
    [] OTHER -> "Error: "

\* The tools that list a collection.
ListTools == {"list_catalogs", "list_schemas", "list_tables"}
\* How the text of a successful answer to the other tools starts; what
\* follows it renders the API's answer.
Heading(name) ==
  CASE name = "get_catalog" -> "Catalog: "
    [] name = "get_schema" -> "Schema: "
    [] name = "get_table" -> "Table: "
    [] name = "create_schema" -> "Schema created successfully!"
    [] name = "update_schema" -> "Schema updated successfully!"
    [] name = "delete_schema" -> "Schema deleted successfully!"
    [] name = "create_table" -> "Table created successfully!"
    [] name = "delete_table" -> "Table deleted successfully!"

\* arguments.get(key) of the call r carries.
Arg(r, key) == Get(Field(Arguments(req[r]), key))

\* The request a tool function sends: its verb, the collection of its URL
\* and the name at the end of the URL (Absent when the URL is that of the
\* collection).
\* list_schemas sending its request with requests.delete.
VerbDeleting(name) ==
  CASE name \in {"create_schema", "create_table"} -> "POST"
    [] name = "update_schema" -> "PATCH"
    [] name \in {"delete_schema", "delete_table", "list_schemas"} -> "DELETE"
    [] OTHER -> "GET"
Verb(name) ==
  CASE name \in {"create_schema", "create_table"} -> "POST"
    [] name = "update_schema" -> "PATCH"
    [] name \in {"delete_schema", "delete_table"} -> "DELETE"
    [] OTHER -> "GET"
Collection(name) ==
  CASE name \in {"list_catalogs", "get_catalog"} -> "catalogs"
    [] name \in {"list_tables", "get_table", "create_table", "delete_table"} -> "tables"
    [] OTHER -> "schemas"
Item(name, r) ==
  CASE name = "get_catalog" -> Arg(r, "catalog_name")
    [] name \in {"get_schema", "update_schema", "delete_schema"} -> Arg(r, "full_schema_name")
    [] name \in {"get_table", "delete_table"} -> Arg(r, "full_table_name")
    [] OTHER -> Absent

\* update_schema: the fields of the payload, and the early return when
\* there is none.
\* A payload of every field the call names, empty or not.
UpdatePayloadSupplied(r) ==
  { k \in {"new_name", "comment", "owner"} : Arguments(req[r])[k] # Absent }
UpdatePayload(r) ==
  { k \in {"new_name", "comment", "owner"} : Truthy(Get(Arguments(req[r])[k])) }

UpdateSchemaCheck(r) ==
  /\ pc[r] = "us_check" /\ loop = r
  /\ IF UpdatePayload(r) = {}
     THEN Return(r, Failure(<<"Error: At least one field (new_name, comment, or owner) must be provided">>))
     ELSE /\ pc' = [pc EXCEPT ![r] = "md_request"]
          /\ UNCHANGED ret
  /\ UNCHANGED <<req, loop, resp, locals, calls, now, submitted, open, store>>

\* The entries a request addresses: the one its URL names, or those of the
\* collection that its query parameters select.
Addressed(name, r, e) ==
  IF Item(name, r) # Absent THEN e.full_name = Item(name, r)
  ELSE CASE name = "list_catalogs" -> TRUE
         [] name = "list_schemas" -> e.catalog_name = Arg(r, "catalog_name")
         [] name = "list_tables" ->
              /\ e.catalog_name = Arg(r, "catalog_name")
              /\ e.schema_name = Arg(r, "schema_name")
         [] OTHER -> FALSE
Found(name, r) ==
  SelectSeq(store[Collection(name)], LAMBDA e : Addressed(name, r, e))

\* if comment: payload["comment"] = comment
PayloadComment(r) ==
  IF Truthy(Arg(r, "comment")) THEN Arg(r, "comment") ELSE Absent
\* The entry the API makes of the payload of create_schema and create_table.
NewEntry(name, r) ==
  IF name = "create_schema"
  THEN SchemaEntry(Arg(r, "catalog_name"), Arg(r, "schema_name"), PayloadComment(r), "me")
  ELSE TableEntry(Arg(r, "catalog_name"), Arg(r, "schema_name"), Arg(r, "table_name"),
                  GetOr(Field(Arguments(req[r]), "table_type"), "MANAGED"),
                  PayloadComment(r), "me")
\* The entry the API makes of e and the payload of update_schema.
Patched(e, r) ==
  LET name == IF "new_name" \in UpdatePayload(r) THEN Arg(r, "new_name") ELSE e.name
  IN  [e EXCEPT !.name = name,
                !.full_name = Dotted(e.catalog_name, name),
                !.comment = IF "comment" \in UpdatePayload(r) THEN Arg(r, "comment") ELSE @,
                !.owner = IF "owner" \in UpdatePayload(r) THEN Arg(r, "owner") ELSE @]

\* The API refuses a request for an entry it does not have, and the
\* creation of an entry that has no name or that it has already.
Refused(name, r) ==
  CASE Verb(name) = "POST" ->
         \/ NewEntry(name, r).name = None
         \/ \E i \in DOMAIN store[Collection(name)] :
              store[Collection(name)][i].full_name = NewEntry(name, r).full_name
    [] Item(name, r) # Absent -> Found(name, r) = <<>>
    [] OTHER -> FALSE

\* What the API keeps after the request.
StoreAfter(name, r) ==
  CASE Verb(name) = "GET" -> store
    [] Verb(name) = "DELETE" ->
         [store EXCEPT ![Collection(name)] =
            SelectSeq(@, LAMBDA e : ~Addressed(name, r, e))]
    [] Verb(name) = "POST" ->
         [store EXCEPT ![Collection(name)] = Append(@, NewEntry(name, r))]
    [] Verb(name) = "PATCH" ->
         [store EXCEPT ![Collection(name)] =
            [i \in DOMAIN @ |-> IF Addressed(name, r, @[i]) THEN Patched(@[i], r) ELSE @[i]]]

\* The lines of one entry of a list: its name, and then its type if it is a
\* table, its comment if it has one, its owner, and its creation time if it
\* is a catalog, its full name otherwise.
Lines(name, e) ==
  <<Str(Get(Field(e, "name")))>>
  \o (IF name = "list_tables"
      THEN <<"   Type: ", Str(Get(Field(e, "table_type")))>> ELSE <<>>)
  \o (IF Truthy(Get(Field(e, "comment")))
      THEN <<"   Comment: ", Str(Get(Field(e, "comment")))>> ELSE <<>>)
  \o <<"   Owner: ", Str(Get(Field(e, "owner")))>>
  \o (IF name = "list_catalogs"
      THEN <<"   Created: ", Str(Get(Field(e, "created_at")))>>
      ELSE <<"   Full Name: ", Str(Get(Field(e, "full_name")))>>)
RECURSIVE AllLines(_, _)
AllLines(name, entries) ==
  IF entries = <<>> THEN <<>>
  ELSE Lines(name, Head(entries)) \o AllLines(name, Tail(entries))
\* output = f"Found {len(...)} ...:\n\n", then the lines of every entry.
ListText(name, r, entries) ==
  (CASE name = "list_catalogs" -> <<"Found ", ToString(Len(entries)), " catalogs:">>
     [] name = "list_schemas" ->
          <<"Found ", ToString(Len(entries)), " schemas in catalog '",
            Arg(r, "catalog_name"), "':">>
     [] name = "list_tables" ->
          <<"Found ", ToString(Len(entries)), " tables in ",
            Arg(r, "catalog_name"), ".", Arg(r, "schema_name"), ":">>)
  \o AllLines(name, entries)
\* The text of a successful answer.
ResultText(name, r) ==
  IF name \in ListTools THEN ListText(name, r, Found(name, r)) ELSE <<Heading(name)>>

\* The one request of a metadata tool function: the API serves it, or the
\* request fails.
MetadataRequest(r) ==
  /\ pc[r] = "md_request" /\ loop = r
  /\ \/ /\ ~Refused(ToolName(req[r]), r)
        /\ calls' = Called(r, "meta")
        /\ store' = StoreAfter(ToolName(req[r]), r)
        /\ Return(r, Success(ResultText(ToolName(req[r]), r)))
     \/ \E msg \in FaultMsgs :
          /\ calls' = Faulted(r, "meta")
          /\ Catch(r, ErrorPrefix(ToolName(req[r])), msg)
          /\ UNCHANGED store
  /\ UNCHANGED <<req, loop, resp, locals, now, submitted, open>>

(***************************************************************************)
(* Specifications.                                                         *)
(***************************************************************************)
\* What the handler of r can do.
Handle(r) ==
  \/ BadBody(r) \/ Initialize(r) \/ ToolsList(r) \/ UnknownMethod(r)
  \/ BadParams(r) \/ UnknownTool(r) \/ CallTool(r) \/ Respond(r)
  \/ CreateContext(r) \/ DestroyContext(r)
  \/ ExecSubmit(r) \/ ExecStatus(r) \/ ExecSleep(r)
  \/ OneShotCreate(r) \/ OneShotSubmit(r) \/ OneShotStatus(r) \/ OneShotSleep(r)
  \/ UpdateSchemaCheck(r) \/ MetadataRequest(r)

\* One request, of any shape, on a server that serves nothing else.
PostAlone(r) ==
  /\ \A q \in Conns : pc[q] = "idle"
  /\ Post(r, RequestBodies)

Next == \E r \in Conns : PostAlone(r) \/ Handle(r)

Spec == Init /\ [][Next]_vars

\* Every network call returns and the clock advances across a sleep: a
\* handler that can take a step takes it.
FairSpec == Spec /\ \A r \in Conns : WF_vars(Handle(r))

(***************************************************************************)
(* A server with several requests in flight, against a cluster that        *)
(* answers every status call at once, with Running or with a result.       *)
(***************************************************************************)
\* What the clients of that server post: a context-scoped execution and an
\* initialize.
BusyBodies ==
  { Body("object", "id1", "tools/call", "object", "execute_command_with_context",
         "object", Args("c1", "x1", "scala", "code", Absent, Absent, Absent)),
    Body("object", "id1", "initialize", "absent", Absent, "absent", NoArguments) }
PromptDocs ==
  { [status |-> "Running", results |-> NoResults],
    [status |-> "Finished", results |-> Payload("text", Absent, Absent, "42")] }

PostBusy(r) == Post(r, BusyBodies)

PromptExecStatus(r) ==
  /\ pc[r] = "ec_status" /\ loop = r
  /\ PollWith(r, "ec_sleep", PromptDocs, {0}, {})
  /\ UNCHANGED <<req, loop, resp, context_id, command_id, start_time, submitted, open, store>>

ServerNext ==
  \E r \in Conns :
    \/ PostBusy(r) \/ Initialize(r) \/ CallTool(r) \/ Respond(r)
    \/ ExecSubmit(r) \/ PromptExecStatus(r) \/ ExecSleep(r)

Server == Init /\ [][ServerNext]_vars

(***************************************************************************)
(* A server whose clients open and close contexts, one call after the      *)
(* other.                                                                  *)
(***************************************************************************)
\* create_context on two clusters, with and without a language, and
\* destroy_context of the context that is open at the start and of the one
\* a create_context call is answered with.
SessionBodies ==
  { Body("object", "id1", "tools/call", "object", "create_context", "object", a) :
      a \in { Args("c1", Absent, "scala", Absent, Absent, Absent, Absent),
              Args("c2", Absent, Absent, Absent, Absent, Absent, Absent) } }
  \cup
  { Body("object", "id1", "tools/call", "object", "destroy_context", "object",
         Args("c1", x, Absent, Absent, Absent, Absent, Absent)) : x \in CtxIds }

PostSession(r) == Post(r, SessionBodies)

SessionNext ==
  \E r \in Conns :
    \/ PostSession(r) \/ CallTool(r) \/ Respond(r)
    \/ CreateContext(r) \/ DestroyContext(r)

Session == Init /\ [][SessionNext]_vars

(***************************************************************************)
(* A server that runs the same command through both execution tools, one   *)
(* call after the other, against a cluster that takes TwinLatency seconds  *)
(* for a status call and answers a later execution as it answered the      *)
(* first.                                                                  *)
(***************************************************************************)
TwinBodies ==
  { Body("object", "id1", "tools/call", "object", n, "object", a) :
      n \in {"execute_command_with_context", "databricks_command"},
      a \in { Args("c1", "x1", "scala", "code", Absent, Absent, Absent),
              Args("c1", "x1", Absent, "code", Absent, Absent, Absent) } }
TwinDocs ==
  { [status |-> "Running", results |-> NoResults],
    [status |-> "Finished", results |-> Payload("text", Absent, Absent, "42")],
    [status |-> "Error", results |-> Payload("error", "NameError", "summary", Absent)],
    [status |-> "Cancelled", results |-> NoResults] }
TwinFaults == {"HTTPError"}

\* The executions before that of q whose submit was accepted, and the first
\* of them.
Polled(q) ==
  { r \in Conns \ {q} : pc[r] = "done" /\ command_id[r] # None }
First(q) == CHOOSE r \in Polled(q) : \A o \in Polled(q) : r <= o

\* What the cluster can answer to the next status call of q: what it
\* answered to the same call of the first execution, and anything once q
\* has made more calls than that.
ReplayDocs(q) ==
  IF Polled(q) = {} \/ calls[q].status + 1 > calls[First(q)].status THEN TwinDocs
  ELSE IF calls[q].status + 1 < calls[First(q)].status
       THEN {[status |-> "Running", results |-> NoResults]}
       ELSE IF calls[First(q)].fault = 0 THEN {status[First(q)]} ELSE {}
ReplayFaults(q) ==
  IF Polled(q) = {} \/ calls[q].status + 1 > calls[First(q)].status THEN TwinFaults
  ELSE IF calls[q].status + 1 = calls[First(q)].status /\ calls[First(q)].fault > 0
       THEN TwinFaults
       ELSE {}

PostTwin(r) == Post(r, TwinBodies)

TwinExecStatus(r) ==
  /\ pc[r] = "ec_status" /\ loop = r
  /\ PollWith(r, "ec_sleep", ReplayDocs(r), {TwinLatency}, ReplayFaults(r))
  /\ UNCHANGED <<req, loop, resp, context_id, command_id, start_time, submitted, open, store>>

TwinOneShotStatus(r) ==
  /\ pc[r] = "db_status" /\ loop = r
  /\ PollWith(r, "db_sleep", ReplayDocs(r), {TwinLatency}, ReplayFaults(r))
  /\ UNCHANGED <<req, loop, resp, context_id, command_id, start_time, submitted, open, store>>

TwinNext ==
  \E r \in Conns :
    \/ PostTwin(r) \/ CallTool(r) \/ Respond(r)
    \/ ExecSubmit(r) \/ TwinExecStatus(r) \/ ExecSleep(r)
    \/ OneShotCreate(r) \/ OneShotSubmit(r) \/ TwinOneShotStatus(r) \/ OneShotSleep(r)

Twin == Init /\ [][TwinNext]_vars

(***************************************************************************)
(* A server whose clients read the metadata, and now and then change it:   *)
(* they create and delete a schema, and update one with every field, with  *)
(* some fields empty and with none.                                        *)
(***************************************************************************)
CatalogueBodies ==
  { Body("object", "id1", "tools/call", "object", "list_catalogs", "absent", NoArguments) }
  \cup
  { Body("object", "id1", "tools/call", "object", n, "object",
         [catalog_name |-> "main", schema_name |-> s] @@ NoArguments) :
      n \in {"list_schemas", "list_tables", "create_schema"}, s \in {"s1", "s3"} }
  \cup
  { Body("object", "id1", "tools/call", "object", "delete_schema", "object",
         [full_schema_name |-> "main.s2"] @@ NoArguments) }
  \cup
  { Body("object", "id1", "tools/call", "object", "update_schema", "object",
         [full_schema_name |-> "main.s2"]
           @@ Args(Absent, Absent, Absent, Absent, f[1], f[2], f[3])) :
      f \in { <<Absent, Absent, Absent>>, <<"", "", "">>,
              <<Absent, "", "me">>, <<"s3", "third", Absent>> } }

PostCatalogue(r) == Post(r, CatalogueBodies)

CatalogueNext ==
  \E r \in Conns :
    \/ PostCatalogue(r) \/ CallTool(r) \/ UpdateSchemaCheck(r)
    \/ MetadataRequest(r) \/ Respond(r)

Catalogue == Init /\ [][CatalogueNext]_vars

(***************************************************************************)
(* A server whose clients ask for the catalog of tools and call tools by   *)
(* name, against a cluster that finishes every command at the first status *)
(* call.                                                                   *)
(***************************************************************************)
DiscoveryBodies ==
  { Body("object", "id1", "tools/list", "absent", Absent, "absent", NoArguments) }
  \cup
  { Body("object", "id1", "tools/call", "object", n, "object",
         [MetadataArguments EXCEPT !.cluster_id = "c1", !.context_id = "x2",
                                   !.language = "scala", !.code = "code"]) :
      n \in ToolNames }
  \cup
  { Body("object", "id1", "tools/call", "object", "create_context", "object",
         [MetadataArguments EXCEPT !.cluster_id = "c1"]) }
DoneDocs == { [status |-> "Finished", results |-> Payload("text", Absent, Absent, "42")] }

PostDiscovery(r) == Post(r, DiscoveryBodies)

DoneExecStatus(r) ==
  /\ pc[r] = "ec_status" /\ loop = r
  /\ PollWith(r, "ec_sleep", DoneDocs, {0}, {})
  /\ UNCHANGED <<req, loop, resp, context_id, command_id, start_time, submitted, open, store>>

DoneOneShotStatus(r) ==
  /\ pc[r] = "db_status" /\ loop = r
  /\ PollWith(r, "db_sleep", DoneDocs, {0}, {})
  /\ UNCHANGED <<req, loop, resp, context_id, command_id, start_time, submitted, open, store>>

DiscoveryNext ==
  \E r \in Conns :
    \/ PostDiscovery(r) \/ ToolsList(r) \/ UnknownTool(r) \/ CallTool(r) \/ Respond(r)
    \/ CreateContext(r) \/ DestroyContext(r)
    \/ ExecSubmit(r) \/ DoneExecStatus(r)
    \/ OneShotCreate(r) \/ OneShotSubmit(r) \/ DoneOneShotStatus(r)
    \/ UpdateSchemaCheck(r) \/ MetadataRequest(r)

Discovery == Init /\ [][DiscoveryNext]_vars

(***************************************************************************)
(* Properties.                                                             *)
(***************************************************************************)
\* r carries a tools/call of the tool `name`.
IsCall(r, name) ==
  /\ req[r].kind = "object" /\ req[r].method = "tools/call"
  /\ req[r].params = "object" /\ req[r].name = name
\* The tool function of r has returned to message_endpoint.
ToolReturned(r) == pc[r] \in {"returned", "done"} /\ ret[r].kind = "return"
\* The one-shot execution of r got its context from contexts/create.
OneShotOpened(r) == IsCall(r, "databricks_command") /\ context_id[r] # None
\* The text of a tool result.
TextOf(result) == result.content[1].text

\* C1: a one-shot execution that created its context has issued a destroy
\* for it by the time it returns, and the context is no longer open.
C1_OneShotClosesContext ==
  \A r \in Conns :
    (ToolReturned(r) /\ OneShotOpened(r))
      => (calls[r].destroy >= 1 /\ context_id[r] \notin open)

\* C2: a one-shot execution that met a transport fault in the submit or in a
\* status call has called destroy exactly once when it returns, and its
\* result is error-flagged and carries the message of the fault.
C2_FaultStillCloses ==
  \A r \in Conns :
    (ToolReturned(r) /\ OneShotOpened(r) /\ ret[r].caught \in FaultMsgs)
      => /\ calls[r].destroy = 1
         /\ IsError(ret[r].value)
         /\ TextOf(ret[r].value) = <<"Error: ", ret[r].caught>>

\* C3: an execution whose last status document says Cancelled returns an
\* error-flagged result, in both execution functions.
C3_CancelledIsFailure ==
  \A r \in Conns :
    (ToolReturned(r) /\ ret[r].caught = None /\ status[r].status = "Cancelled")
      => IsError(ret[r].value)

\* The clock of the invocation r moved by its sleeps only.
OnlySleeps(r) == now - start_time[r] = Interval * calls[r].sleep
\* The execution of r returned the timed-out result.
TimedOutReturn(r) ==
  /\ ToolReturned(r)
  /\ \/ IsCall(r, "execute_command_with_context")
     \/ IsCall(r, "databricks_command")
  /\ ret[r].caught = None
  /\ status[r].status = "Running"

\* C4 as stated: a timed-out execution whose clock moved by the sleeps only
\* made floor(budget / interval) status calls.
C4_SixtyCalls ==
  \A r \in Conns :
    (TimedOutReturn(r) /\ OnlySleeps(r)) => calls[r].status = Timeout \div Interval

\* C4 as amended: such an execution returns the timed-out result, has made
\* floor(budget / interval) + 2 status calls with one sleep between two of
\* them, and returns one interval after the budget.
C4_SixtyTwoCalls ==
  \A r \in Conns :
    (TimedOutReturn(r) /\ OnlySleeps(r))
      => /\ ret[r].value = TimedOut
         /\ calls[r].status = (Timeout \div Interval) + 2
         /\ calls[r].sleep = (Timeout \div Interval) + 1
         /\ now - start_time[r] = Timeout + Interval

C4_Witness ==
  \E r \in Conns :
    /\ TimedOutReturn(r) /\ OnlySleeps(r)
    /\ pc[r] = "done" /\ IsError(resp[r].result)
    /\ calls[r].status = 62

\* C5: every invocation that arrived gets its response: the handler ends,
\* whatever the cluster answers, provided calls return and sleeps move the
\* clock.
C5_EveryInvocationEnds ==
  \A r \in Conns : (pc[r] = "arrived") ~> (pc[r] = "done")

\* An execution that went round the poll loop and then came back.
C5_Witness ==
  \E r \in Conns :
    /\ pc[r] = "done" /\ ToolReturned(r)
    /\ calls[r].status > 1 /\ calls[r].sleep > 0

\* r is inside its poll loop: in a status call or in the sleep before it.
Polling(r) == pc[r] \in {"ec_status", "ec_sleep", "db_status", "db_sleep"}

\* C6: while an invocation is inside its poll loop it does not hold the
\* event loop, and the handler of any other request that has arrived can
\* start.
C6_PollingBlocksNobody ==
  \A r, q \in Conns :
    (r # q /\ Polling(r) /\ pc[q] = "arrived")
      => (loop # r /\ ENABLED (Initialize(q) \/ CallTool(q)))

\* The execution of r failed: a transport fault, a timeout or a remote error.
ExecutionFailed(r) ==
  \/ ret[r].caught # None
  \/ status[r].status = "Running"
  \/ status[r].status = "Error"
  \/ status[r].results.resultType = "error"

\* C7: a tool function always returns, never raises; when its execution
\* failed the value is error-flagged; and the response then carries that
\* value under "result", with no "error" member.
C7_FailuresAreToolResults ==
  \A r \in Conns :
    /\ pc[r] = "returned" => ret[r].kind = "return"
    /\ (ToolReturned(r) /\ ExecutionFailed(r)) => IsError(ret[r].value)
    /\ (pc[r] = "done" /\ ret[r] # NoReturn)
         => /\ ret[r].kind = "return"
            /\ IsRpcResult(resp[r]) /\ ~IsRpcError(resp[r])
            /\ resp[r].result = ret[r].value

\* A transport fault, a timeout and a remote error, each answered.
C7_Witness ==
  \E r \in Conns :
    /\ pc[r] = "done" /\ ToolReturned(r) /\ ExecutionFailed(r)
    /\ IsCall(r, "databricks_command")
    /\ ret[r].caught = "HTTPError" /\ status[r].status = "Running"
    /\ IsError(resp[r].result)

\* The body of r is malformed: no JSON, no object, or an object whose
\* params is no object.
Malformed(b) ==
  \/ b.kind = "notjson"
  \/ b.kind = "nonobject"
  \/ b.kind = "object" /\ b.params = "nonobject"

\* C8: the response to a malformed body is a JSON-RPC error with code
\* -32603; the handler does not raise.
C8_MalformedGetsInternalError ==
  \A r \in Conns :
    (pc[r] = "done" /\ Malformed(req[r]))
      => /\ ~IsHandlerRaised(resp[r])
         /\ IsRpcError(resp[r])
         /\ resp[r].error.code = -32603

\* r carries a tools/call whose tool name is not one tools/list advertises.
UncataloguedCall(r) ==
  /\ req[r].kind = "object" /\ req[r].method = "tools/call"
  /\ req[r].params # "nonobject"
  /\ ToolName(req[r]) \notin ToolCatalog

\* C9: a tools/call of a name outside the catalog is answered with error
\* code -32601 and the id of the request, and neither a tool function nor an
\* outbound call has run for it.
C9_UnknownToolIsMethodNotFound ==
  \A r \in Conns :
    (UncataloguedCall(r) /\ pc[r] \notin {"idle", "arrived"})
      => /\ pc[r] = "done"
         /\ IsRpcError(resp[r]) /\ ~IsRpcResult(resp[r])
         /\ resp[r].error.code = -32601
         /\ resp[r].id = Get(req[r].id)
         /\ ret[r] = NoReturn
         /\ calls[r] = NoCalls /\ submitted[r] = NoSubmit /\ open = {"x1"}

C9_Witness ==
  \E r \in Conns :
    /\ UncataloguedCall(r) /\ pc[r] = "done"
    /\ req[r].name = "bogus_tool" /\ req[r].id = "id1"
    /\ resp[r].id = "id1" /\ resp[r].error.code = -32601

\* r carries a JSON object whose method is none of the three.
UnknownMethodRequest(r) ==
  /\ req[r].kind = "object"
  /\ req[r].method \notin {"initialize", "tools/list", "tools/call"}

\* C10: a request with an unknown method, or with none, is answered with
\* error code -32601, and no tool function has run for it.
C10_UnknownMethodIsMethodNotFound ==
  \A r \in Conns :
    (UnknownMethodRequest(r) /\ pc[r] \notin {"idle", "arrived"})
      => /\ pc[r] = "done"
         /\ IsRpcError(resp[r]) /\ ~IsRpcResult(resp[r])
         /\ resp[r].error.code = -32601
         /\ ret[r] = NoReturn
         /\ calls[r] = NoCalls /\ open = {"x1"}

C10_Witness ==
  \E r \in Conns :
    /\ UnknownMethodRequest(r) /\ pc[r] = "done"
    /\ req[r].method = Absent
    /\ resp[r].error.code = -32601

\* r carries an execution, context-scoped or one-shot.
IsExecution(r) ==
  IsCall(r, "execute_command_with_context") \/ IsCall(r, "databricks_command")
\* The status document of a command that printed 42.
Finished42 == [status |-> "Finished", results |-> Payload("text", Absent, Absent, "42")]

\* C11: when the first status call of an execution answers with a terminal
\* status, the function returns in that step without a sleep, and makes no
\* call after it: one status call in all. When that answer is Finished with
\* resultType text and data "42", the result has the text "42" and no error
\* flag.
C11_FirstTerminalEndsLoop ==
  [][\A r \in Conns :
       /\ (/\ calls[r].status = 0 /\ calls'[r].status = 1
           /\ status'[r].status \in {"Finished", "Error", "Cancelled"})
            => /\ pc'[r] = "returned"
               /\ calls'[r].sleep = 0
               /\ status'[r] = Finished42
                    => /\ ret'[r] = Returned(Success(<<"42">>), None)
                       /\ "isError" \notin DOMAIN ret'[r].value
       /\ pc[r] \in {"returned", "done"} => calls'[r] = calls[r]]_vars

C11_Witness ==
  \E r \in Conns :
    /\ IsExecution(r) /\ pc[r] = "done"
    /\ status[r] = Finished42
    /\ calls[r].status = 1 /\ calls[r].sleep = 0
    /\ resp[r].result = Success(<<"42">>)

\* The last status document of r reports an error of the command: status
\* Error, or Finished with resultType error.
RemoteError(r) ==
  \/ status[r].status = "Error"
  \/ status[r].status = "Finished" /\ status[r].results.resultType = "error"

\* C12: an execution whose terminal status document reports an error
\* returns an error-flagged result whose text is "Error: " and the cause of
\* the results if they have one, else their summary, else "Unknown error".
C12_RemoteErrorIsFailure ==
  \A r \in Conns :
    (ToolReturned(r) /\ IsExecution(r) /\ ret[r].caught = None /\ RemoteError(r))
      => /\ IsError(ret[r].value)
         /\ TextOf(ret[r].value) =
              <<"Error: ",
                IF status[r].results.cause # Absent THEN status[r].results.cause
                ELSE IF status[r].results.summary # Absent THEN status[r].results.summary
                ELSE "Unknown error">>

\* A command that ended in Error with cause NameError, reported as such.
C12_Witness ==
  \E r \in Conns :
    /\ IsExecution(r) /\ pc[r] = "done"
    /\ status[r].status = "Error" /\ status[r].results.cause = "NameError"
    /\ IsError(resp[r].result)
    /\ TextOf(resp[r].result) = <<"Error: ", "NameError">>

\* The marker of a command that printed nothing.
NoOutput == <<"Success (no output)">>

\* C13: an execution whose terminal status is Finished and whose results are
\* no error returns a result without error flag; its text is the marker
\* exactly when the data is absent or empty, and otherwise the string form
\* of the data, as for the number 0 and the boolean false.
C13_SuccessCarriesData ==
  \A r \in Conns :
    (/\ ToolReturned(r) /\ IsExecution(r) /\ ret[r].caught = None
     /\ status[r].status = "Finished" /\ status[r].results.resultType # "error")
      => /\ ~IsError(ret[r].value)
         /\ TextOf(ret[r].value) = NoOutput <=> status[r].results.data \in {Absent, ""}
         /\ status[r].results.data \notin {Absent, ""}
              => TextOf(ret[r].value) = <<Str(status[r].results.data)>>

\* {content: [one text item]}, with isError true or without isError.
UniformResult(v) ==
  /\ DOMAIN v \in {{"content"}, {"content", "isError"}}
  /\ Len(v.content) = 1
  /\ DOMAIN v.content[1] = {"type", "text"}
  /\ v.content[1].type = "text"
  /\ "isError" \in DOMAIN v => v.isError = TRUE

\* C14: an execution that was invoked gives message_endpoint one outcome:
\* it returns (it never raises), what it returns is a result of the uniform shape,
\* error-flagged or without the flag, and the outcome, once produced, is
\* not replaced by another.
C14_OneUniformResult ==
  [][\A r \in Conns :
       /\ (IsExecution(r) /\ pc'[r] = "returned")
            => /\ ret'[r].kind = "return"
               /\ UniformResult(ret'[r].value)
       /\ ret[r] # NoReturn => ret'[r] = ret[r]]_vars

\* An execution that timed out, answered with its flagged result.
C14_Witness ==
  \E r \in Conns :
    /\ TimedOutReturn(r) /\ pc[r] = "done"
    /\ UniformResult(ret[r].value) /\ IsError(ret[r].value)
    /\ resp[r].result = ret[r].value

\* The submit of the execution of r met a transport fault.
SubmitFailed(r) ==
  IsExecution(r) /\ calls[r].submit = 1 /\ command_id[r] = None /\ calls[r].fault >= 1

\* C15: an execution whose submit fails has returned an error-flagged result
\* with the message of the fault, without a status call and without a sleep.
C15_SubmitFaultEndsExecution ==
  \A r \in Conns :
    SubmitFailed(r)
      => /\ ToolReturned(r)
         /\ IsError(ret[r].value)
         /\ TextOf(ret[r].value) = <<"Error: ", ret[r].caught>>
         /\ ret[r].caught \in FaultMsgs
         /\ calls[r].status = 0 /\ calls[r].sleep = 0

\* Both paths: here the one-shot execution, whose context was created.
C15_Witness ==
  \E r \in Conns :
    /\ SubmitFailed(r) /\ IsCall(r, "databricks_command") /\ pc[r] = "done"
    /\ calls[r].create = 1 /\ calls[r].status = 0
    /\ IsError(resp[r].result)

\* A status call of the execution of r met a transport fault.
StatusFailed(r) ==
  IsExecution(r) /\ command_id[r] # None /\ calls[r].fault >= 1

\* C16: an execution one of whose status calls fails has returned, in the
\* step of that call, an error-flagged result with the message of the
\* fault: no status call and no sleep follows the failed call, however many
\* polls came before it.
C16_StatusFaultEndsLoop ==
  [][\A r \in Conns :
       /\ StatusFailed(r)'
            => /\ pc'[r] \in {"returned", "done"}
               /\ ret'[r].kind = "return"
               /\ IsError(ret'[r].value)
               /\ ret'[r].value.content[1].text = <<"Error: ", ret'[r].caught>>
               /\ ret'[r].caught \in FaultMsgs
               /\ calls'[r].fault = 1
       /\ StatusFailed(r) => calls'[r] = calls[r]]_vars

\* A fault in the third status call.
C16_Witness ==
  \E r \in Conns :
    /\ StatusFailed(r) /\ pc[r] = "done"
    /\ calls[r].status = 3 /\ calls[r].sleep = 2
    /\ IsError(resp[r].result)

\* The destroy_context calls for the context x whose request went out to
\* the cluster.
DestroysSent(x) ==
  { r \in Conns : IsCall(r, "destroy_context") /\ ArgContextId(r) = x
                  /\ calls[r].destroy >= 1 }
\* A destroy_context call for x that the cluster accepted.
Destroyed(x) ==
  \E r \in DestroysSent(x) : ToolReturned(r) /\ ret[r].caught = None

\* C17: of the destroy_context calls for a context that has been destroyed,
\* one request at most reaches the cluster: a second call is refused by the
\* server itself, without a request.
C17_SecondDestroyRejected ==
  \A x \in CtxIds :
    Destroyed(x) => Cardinality(DestroysSent(x)) <= 1

\* r is a create_context call and q a destroy_context call, the cluster
\* accepted the request of each, and no other call was made.
CreatedAndDestroyed(r, q) ==
  /\ IsCall(r, "create_context") /\ IsCall(q, "destroy_context")
  /\ pc[r] \in {"returned", "done"} /\ pc[q] \in {"returned", "done"}
  /\ calls[r].create = 1 /\ calls[r].fault = 0
  /\ calls[q].destroy = 1 /\ calls[q].fault = 0
  /\ \A o \in Conns \ {r, q} : pc[o] = "idle"

\* C18: whatever the cluster id and the language, a create_context call and
\* a destroy_context call that the cluster both accepts return no
\* error-flagged result, the text of the create carries the id of the
\* context, and when the destroy is of that id so that it follows the
\* create, the contexts open on the cluster are those open before the create.
C18_CreateDestroyRoundTrip ==
  \A r, q \in Conns :
    CreatedAndDestroyed(r, q)
      => /\ ret[r].kind = "return" /\ ~IsError(ret[r].value)
         /\ ret[q].kind = "return" /\ ~IsError(ret[q].value)
         /\ TextOf(ret[r].value)[2] = context_id[r]
         /\ ArgContextId(q) = context_id[r] => open = InitiallyOpen

C18_Witness ==
  \E r, q \in Conns :
    /\ CreatedAndDestroyed(r, q)
    /\ pc[r] = "done" /\ pc[q] = "done"
    /\ ArgContextId(q) = context_id[r]
    /\ ArgLanguage(r) = "scala"
    /\ ~IsError(resp[r].result) /\ ~IsError(resp[q].result)
    /\ open = InitiallyOpen

\* r runs a command in a context that is open, naming another cluster than
\* the one the context was created on.
Mismatched(r) ==
  /\ IsCall(r, "execute_command_with_context")
  /\ ArgContextId(r) \in InitiallyOpen
  /\ ArgClusterId(r) # HomeCluster

\* C19: a context-scoped execution that names a context together with a
\* cluster the context was not created on ends in an error-flagged result:
\* the pair is never used for a command whose outcome is returned as if
\* nothing were wrong.
C19_ForeignClusterRejected ==
  \A r \in Conns :
    (Mismatched(r) /\ ToolReturned(r)) => IsError(ret[r].value)

\* r is a context-scoped and q a one-shot execution of the same arguments,
\* both have returned, and the cluster accepted the submit of each: it then
\* gave the later of the two the answers of the earlier.
SameRun(r, q) ==
  /\ IsCall(r, "execute_command_with_context") /\ IsCall(q, "databricks_command")
  /\ Arguments(req[r]) = Arguments(req[q])
  /\ ToolReturned(r) /\ ToolReturned(q)
  /\ command_id[r] # None /\ command_id[q] # None
\* The two made the same status calls and sleeps and returned the same.
SameCourse(r, q) ==
  /\ calls[r].status = calls[q].status
  /\ calls[r].sleep = calls[q].sleep
  /\ calls[r].fault = calls[q].fault
  /\ ret[r] = ret[q]

IsListing(r) ==
  /\ req[r].kind = "object" /\ req[r].method = "tools/call"
  /\ req[r].params = "object" /\ req[r].name \in ListTools
\* The API served the request of r.
Served(r) == calls[r].meta = 1 /\ calls[r].fault = 0
\* No request that the API served was one that writes.
StoreUntouched ==
  \A o \in Conns : (Served(o) /\ pc[o] # "idle") => IsListing(o)
\* r and q are calls of the same list tool with the same arguments, both
\* served from a store that no call has written to.
SameListing(r, q) ==
  /\ r # q /\ IsListing(r) /\ IsListing(q)
  /\ req[r].name = req[q].name /\ Arguments(req[r]) = Arguments(req[q])
  /\ ToolReturned(r) /\ ToolReturned(q)
  /\ Served(r) /\ Served(q)
  /\ StoreUntouched

\* C21: the request of a list tool leaves the store of the metadata API as
\* it is, and two calls of the same list tool with the same arguments, served
\* from an unchanged store, return the same text.
C21_ListingIsIdempotent ==
  [][\A r \in Conns :
       /\ (IsListing(r) /\ pc[r] = "md_request" /\ pc'[r] = "returned")
            => store' = store
       /\ \A q \in Conns :
            SameListing(r, q)' => ret'[r].value = ret'[q].value]_vars

\* Two list_schemas calls that both found the two schemas of "main".
C21_Witness ==
  \E r, q \in Conns :
    /\ SameListing(r, q) /\ pc[r] = "done" /\ pc[q] = "done"
    /\ req[r].name = "list_schemas"
    /\ resp[r].result = resp[q].result
    /\ TextOf(resp[r].result)[2] = "2"
    /\ store = InitialStore

\* C22: in an execution, as many sleeps as status calls have been made
\* when a status call starts (none before the first, one between two calls),
\* a sleep starts only after a status call that no sleep has followed yet
\* and lasts the interval, and the function returns from a status call
\* without a sleep after it.
C22_OneSleepBetweenCalls ==
  [][\A r \in Conns :
       IsExecution(r) =>
         /\ calls'[r].status # calls[r].status
              => /\ calls[r].sleep = calls[r].status
                 /\ calls'[r].status = calls[r].status + 1
         /\ calls'[r].sleep # calls[r].sleep
              => /\ calls[r].sleep = calls[r].status - 1
                 /\ calls'[r].sleep = calls[r].sleep + 1
                 /\ now' = now + Interval
         /\ (pc'[r] = "returned" /\ calls'[r].status >= 1)
              => calls'[r].sleep = calls'[r].status - 1
         /\ pc[r] \in {"returned", "done"} => calls'[r] = calls[r]]_vars

\* Three status calls with a sleep of the interval between them.
C22_Witness ==
  \E r \in Conns :
    /\ IsExecution(r) /\ pc[r] = "done" /\ ToolReturned(r)
    /\ calls[r].status = 3 /\ calls[r].sleep = 2
    /\ now - start_time[r] = Interval + Interval

\* The step is a status call of r that the cluster answers.
StatusAnswered(r) ==
  /\ calls'[r].status = calls[r].status + 1
  /\ calls'[r].fault = calls[r].fault

\* C23: a status call that returns after the deadline has passed, whenever
\* it began, is answered like any other: its document is kept, and the
\* function returns in that step, with the timed-out result when the
\* document is not terminal; it makes no status call after that. The
\* timed-out result comes from no other step, and a sleep that ends after
\* the deadline is followed by a status call, not by the result.
C23_DeadlineAfterStatusCall ==
  [][\A r \in Conns :
       IsExecution(r) =>
         /\ (StatusAnswered(r) /\ now' - start_time[r] > Timeout)
              => /\ status'[r] \in StatusDocs
                 /\ pc'[r] = "returned"
                 /\ status'[r].status = "Running" => ret'[r] = Returned(TimedOut, None)
         /\ (ret'[r] # ret[r] /\ ret'[r] = Returned(TimedOut, None))
              => StatusAnswered(r)
         /\ calls'[r].sleep # calls[r].sleep
              => /\ pc'[r] \in {"ec_status", "db_status"}
                 /\ ret'[r] = NoReturn
         /\ pc[r] \in {"returned", "done"} => calls'[r] = calls[r]]_vars

\* A first status call that began at once and took longer than the budget.
C23_Witness ==
  \E r \in Conns :
    /\ TimedOutReturn(r) /\ pc[r] = "done"
    /\ calls[r].status = 1 /\ calls[r].sleep = 0
    /\ now - start_time[r] = SlowCall
    /\ resp[r].result = TimedOut

\* C24: an execution that returned the timed-out result has sent no cancel
\* request for its command, whose last known status is Running, and makes no
\* call after the status call that timed out; the context-scoped execution
\* has sent no destroy request either, and its context is as open as it was.
C24_TimeoutLeavesCommandRunning ==
  [][\A r \in Conns :
       TimedOutReturn(r)' =>
         /\ calls'[r].cancel = 0
         /\ status'[r].status = "Running"
         /\ TimedOutReturn(r) => calls'[r] = calls[r]
         /\ IsCall(r, "execute_command_with_context")
              => /\ calls'[r].destroy = 0 /\ calls'[r].create = 0
                 /\ open' = open]_vars

\* A context-scoped execution that timed out on a context that is open.
C24_Witness ==
  \E r \in Conns :
    /\ TimedOutReturn(r) /\ pc[r] = "done"
    /\ IsCall(r, "execute_command_with_context")
    /\ ArgContextId(r) \in open
    /\ calls[r].cancel = 0 /\ calls[r].destroy = 0
    /\ resp[r].result = TimedOut

\* The calls of an invocation that sent one request of the kind `kind` and
\* nothing else, of which `faults` failed.
OneRequest(kind, faults) == [NoCalls EXCEPT ![kind] = 1, !.fault = faults]
\* r is a create_context call that returned a context.
Created(r) ==
  IsCall(r, "create_context") /\ ToolReturned(r) /\ ~IsError(ret[r].value)

\* C25: a create_context or destroy_context call that has returned has sent
\* one request, whether it failed or not; the id in the result of a
\* create_context call is that of a context which the call's own request
\* opened; and two create_context calls return the same id only if a
\* destroy request for that context went out, so that the cluster could
\* give the id again.
C25_OneRequestFreshContext ==
  [][\A r \in Conns :
       /\ (IsCall(r, "create_context") /\ ToolReturned(r)')
            => calls'[r] \in {OneRequest("create", 0), OneRequest("create", 1)}
       /\ (IsCall(r, "destroy_context") /\ ToolReturned(r)')
            => calls'[r] \in {OneRequest("destroy", 0), OneRequest("destroy", 1)}
       /\ (Created(r)' /\ ~Created(r))
            => /\ TextOf(ret'[r].value)[2] \in open' \ open
               /\ calls'[r].fault = 0
       /\ \A q \in Conns :
            (r # q /\ Created(r)' /\ Created(q)'
               /\ TextOf(ret'[r].value)[2] = TextOf(ret'[q].value)[2])
              => \E d \in Conns :
                   /\ IsCall(d, "destroy_context")
                   /\ ArgContextId(d) = TextOf(ret'[r].value)[2]
                   /\ calls'[d].destroy >= 1]_vars

\* Two create_context calls that returned two contexts, both open.
C25_Witness ==
  \E r, q \in Conns :
    /\ r # q /\ Created(r) /\ Created(q)
    /\ pc[r] = "done" /\ pc[q] = "done"
    /\ TextOf(resp[r].result)[2] # TextOf(resp[q].result)[2]
    /\ {TextOf(resp[r].result)[2], TextOf(resp[q].result)[2]} \subseteq open

\* r is a call of a context tool whose arguments lack a required one.
MissingArgument(r) ==
  /\ \E name \in ContextTools :
       /\ IsCall(r, name)
       /\ \E key \in Required(name) : Field(Arguments(req[r]), key) = Absent
  /\ ArgumentsKind(req[r]) # "nonobject"

\* C26: a call of a context tool that lacks a required argument sends no
\* request to the cluster API, and what it returns is an error-flagged
\* result.
C26_MissingArgumentRejected ==
  \A r \in Conns :
    (MissingArgument(r) /\ pc[r] \notin {"idle", "arrived"})
      => /\ calls[r] = NoCalls
         /\ ToolReturned(r) => IsError(ret[r].value)

\* r and q are two executions by the same tool with the same arguments,
\* both have returned, and the cluster accepted the submit of each: it then
\* gave the later of the two, which ran after another invocation, the
\* answers of the earlier, which ran before any.
SameCall(r, q) ==
  /\ r # q /\ IsExecution(r) /\ req[r].name = req[q].name
  /\ Arguments(req[r]) = Arguments(req[q])
  /\ ToolReturned(r) /\ ToolReturned(q)
  /\ command_id[r] # None /\ command_id[q] # None

\* C27: what an execution sends and returns depends on its arguments and on
\* the answers to its own calls alone: with the same arguments and answers
\* it makes the same calls and returns the same result after another
\* invocation as before any.
C27_ResultFromOwnAnswers ==
  \A r, q \in Conns :
    SameCall(r, q)
      => /\ SameCourse(r, q)
         /\ submitted[r] = [submitted[q] EXCEPT !.contextId = submitted[r].contextId]

\* Two context-scoped executions of the same command, one after the other,
\* that both finished at the second status call.
C27_Witness ==
  \E r, q \in Conns :
    /\ SameCall(r, q) /\ pc[r] = "done" /\ pc[q] = "done"
    /\ req[r].name = "execute_command_with_context"
    /\ start_time[r] < start_time[q]
    /\ calls[r].status = 2 /\ calls[q].status = 2
    /\ resp[r].result = Success(<<"42">>) /\ resp[q].result = Success(<<"42">>)

\* C28: a status call answered with a terminal status after the budget has
\* been exceeded returns the classification of that status, not the
\* timed-out result, and the timed-out result is returned only upon an
\* answer whose status is not terminal.
C28_TerminalBeforeDeadline ==
  [][\A r \in Conns :
       IsExecution(r) =>
         /\ (/\ StatusAnswered(r) /\ now' - start_time[r] > Timeout
             /\ status'[r].status \in {"Finished", "Error", "Cancelled"})
              => /\ ret'[r] = Returned(Classify(status'[r]), None)
                 /\ ret'[r].value # TimedOut
                 /\ status'[r] = Finished42 => ret'[r].value = Success(<<"42">>)
         /\ (ret'[r] # ret[r] /\ ret'[r].kind = "return" /\ ret'[r].value = TimedOut)
              => /\ StatusAnswered(r)
                 /\ status'[r].status \notin {"Finished", "Error", "Cancelled"}
                 /\ now' - start_time[r] > Timeout]_vars

\* A status call that took longer than the budget and was answered with
\* Finished.
C28_Witness ==
  \E r \in Conns :
    /\ IsExecution(r) /\ pc[r] = "done" /\ ToolReturned(r)
    /\ calls[r].status = 1 /\ now - start_time[r] = SlowCall
    /\ status[r] = Finished42
    /\ resp[r].result = Success(<<"42">>)

\* A step of the tool invoked for request r: a cluster call or a sleep.
ToolStep(r) == calls'[r] # calls[r]

\* C29: execute_command_with_context makes submit and status calls only,
\* never a create or a destroy call, and none of its steps, whatever the
\* outcome, closes a context: the one it ran in is as open afterwards as it
\* was before and takes the next command.
C29_ExecutionKeepsContext ==
  [][\A r \in Conns :
       IsCall(r, "execute_command_with_context") =>
         /\ calls'[r].create = 0 /\ calls'[r].destroy = 0
         /\ calls'[r].cancel = 0 /\ calls'[r].meta = 0
         /\ context_id'[r] = None
         /\ ToolStep(r) => open' = open
         /\ pc'[r] = "returned" => open' = open]_vars

\* A command on context x1 that timed out, and a later command that was
\* accepted on x1.
C29_Witness ==
  \E r, q \in Conns :
    /\ IsCall(r, "execute_command_with_context") /\ ArgContextId(r) = "x1"
    /\ IsCall(q, "execute_command_with_context") /\ ArgContextId(q) = "x1"
    /\ pc[r] = "done" /\ TimedOutReturn(r)
    /\ start_time[q] > start_time[r]
    /\ calls[q].submit = 1 /\ calls[q].fault = 0 /\ command_id[q] = "cmd"
    /\ "x1" \in open

\* The call `kind` made by a step of the tool invoked for r, and the same
\* call ending in a fault.
Calls(r, kind) == calls'[r][kind] = calls[r][kind] + 1
Fails(r, kind) == Calls(r, kind) /\ calls'[r].fault = calls[r].fault + 1

\* C30: a one-shot execution whose create call fails returns an
\* error-flagged result in that step and has made no submit, status or
\* destroy call; it submits only after a create call that succeeded, and
\* asks for the status only after a submit call that succeeded.
C30_OneShotCallOrder ==
  [][\A r \in Conns :
       IsCall(r, "databricks_command") =>
         /\ Fails(r, "create")
              => /\ pc'[r] = "returned" /\ ret'[r].kind = "return"
                 /\ ret'[r].value.isError = TRUE
                 /\ calls'[r].submit = 0 /\ calls'[r].status = 0
                 /\ calls'[r].destroy = 0 /\ calls'[r].sleep = 0
         /\ (pc[r] = "done" /\ calls[r].create = 1 /\ context_id[r] = None)
              => /\ calls[r].submit = 0 /\ calls[r].status = 0
                 /\ calls[r].destroy = 0
                 /\ resp[r].result.isError = TRUE
         /\ Calls(r, "submit")
              => /\ calls[r].create = 1 /\ calls[r].fault = 0
                 /\ context_id[r] \in CtxIds
                 /\ submitted'[r].contextId = context_id[r]
         /\ Calls(r, "status")
              => /\ calls[r].submit = 1 /\ calls[r].fault = 0
                 /\ command_id[r] = "cmd"]_vars

\* A one-shot execution answered after contexts/create failed.
C30_Witness ==
  \E r \in Conns :
    /\ IsCall(r, "databricks_command") /\ pc[r] = "done"
    /\ calls[r].create = 1 /\ calls[r].fault = 1
    /\ calls[r].submit = 0 /\ calls[r].status = 0 /\ calls[r].destroy = 0
    /\ context_id[r] = None
    /\ resp[r].result = Failure(<<"Error: ", "HTTPError">>)

\* r carries a tools/call that reaches the tool chain.
NamedCall(r) ==
  /\ req[r].kind = "object" /\ req[r].method = "tools/call"
  /\ req[r].params = "object"
\* r was answered with the error of the final else of the tool chain.
UnknownToolAnswer(r) ==
  /\ pc[r] = "done" /\ IsRpcError(resp[r])
  /\ resp[r].error.code = -32601
\* A tool function has been entered for r.
Dispatched(r) == pc[r] \notin {"idle", "arrived", "done"} \/ ret[r] # NoReturn

\* C31: the names a tools/list response carries are the names tools/call
\* dispatches: a call of a name in the response is never answered with the
\* unknown-tool error, a call that enters a tool function has a name that
\* is in the response, and a call of any other name gets that error.
C31_CatalogIsDispatchTable ==
  \A r, q \in Conns :
    (/\ req[r].kind = "object" /\ req[r].method = "tools/list" /\ pc[r] = "done"
     /\ NamedCall(q))
      => /\ IsRpcResult(resp[r])
         /\ UnknownToolAnswer(q) => ToolName(req[q]) \notin resp[r].result.tools
         /\ Dispatched(q) => ToolName(req[q]) \in resp[r].result.tools
         /\ (pc[q] = "done" /\ ToolName(req[q]) \notin resp[r].result.tools)
              => UnknownToolAnswer(q)
         /\ (pc[q] = "done" /\ ToolName(req[q]) \in resp[r].result.tools)
              => ~IsRpcError(resp[q]) /\ IsRpcResult(resp[q])

\* The last tool of the catalog, named in a tools/list response and called.
C31_Witness ==
  \E r, q \in Conns :
    /\ req[r].method = "tools/list" /\ pc[r] = "done"
    /\ "delete_table" \in resp[r].result.tools
    /\ NamedCall(q) /\ ToolName(req[q]) = "delete_table"
    /\ pc[q] = "done" /\ calls[q].meta = 1
    /\ IsRpcResult(resp[q])

\* C32: the response to a request whose body is a JSON object has the
\* member jsonrpc "2.0", the id of the request, null when the request has
\* none, and besides these either "result" or "error", never both and never
\* neither, whatever the method and the tool name.
C32_ResponseShape ==
  \A r \in Conns :
    (req[r].kind = "object" /\ pc[r] = "done")
      => /\ "jsonrpc" \in DOMAIN resp[r] /\ resp[r].jsonrpc = "2.0"
         /\ "id" \in DOMAIN resp[r]
         /\ resp[r].id = (IF req[r].id = Absent THEN None ELSE req[r].id)
         /\ \/ DOMAIN resp[r] = {"jsonrpc", "id", "result"}
            \/ DOMAIN resp[r] = {"jsonrpc", "id", "error"}

\* A tools/call with an id whose params are no object, answered from the
\* except clause, and the same without an id.
C32_Witness ==
  \E r \in Conns :
    /\ req[r].kind = "object" /\ req[r].method = "tools/call"
    /\ req[r].params = "nonobject" /\ pc[r] = "done"
    /\ \/ req[r].id = "id1" /\ resp[r].id = "id1"
       \/ req[r].id = Absent /\ resp[r].id = None
    /\ DOMAIN resp[r] = {"jsonrpc", "id", "error"}


\* q is a context-scoped execution in the context that the create_context
\* call r was answered with.
RunsIn(q, r) ==
  /\ IsCall(r, "create_context") /\ pc[r] = "done" /\ context_id[r] # None
  /\ IsCall(q, "execute_command_with_context")
  /\ ArgContextId(q) = context_id[r]
  /\ calls[q].submit >= 1

\* C33: a context-scoped execution submits its command with language
\* "python", whatever language the request names and whatever language the
\* create_context call that opened its context asked for.
C33_ContextRunsPython ==
  \A q \in Conns :
    (IsCall(q, "execute_command_with_context") /\ calls[q].submit >= 1)
      => /\ submitted[q].language = "python"
         /\ submitted[q].contextId = ArgContextId(q)

\* A context created for scala, and a command submitted in it.
C33_Witness ==
  \E r, q \in Conns :
    /\ RunsIn(q, r)
    /\ ArgLanguage(r) = "scala" /\ context_id[r] = "x2"
    /\ resp[r].result = Success(<<"Context created successfully! Context ID: ", "x2",
                                  " Cluster ID: ", "c1", " Language: ", "scala">>)
    /\ calls[q].fault = 0 /\ submitted[q].contextId = "x2"
    /\ submitted[q].language = "python"

\* r carries a call of update_schema; the call names field k with a value
\* that is not empty.
IsUpdate(r) ==
  /\ req[r].kind = "object" /\ req[r].method = "tools/call"
  /\ req[r].params = "object" /\ req[r].name = "update_schema"
  /\ req[r].arguments = "object"
NonEmpty(r, k) == req[r].args[k] \notin {Absent, ""}
\* What the payload of r makes of the value v that field k has.
Sent(r, k, v) == IF NonEmpty(r, k) THEN req[r].args[k] ELSE v

\* C34: update_schema with no field that is not empty returns an
\* error-flagged result without a request; with such a field it sends one
\* PATCH request, and the schema that request names gets the fields that
\* are not empty and keeps its other fields, as every other schema keeps
\* all of its fields.
C34_UpdatePayload ==
  [][\A r \in Conns :
       IsUpdate(r) =>
         /\ calls'[r].meta <= 1
         /\ (\A k \in {"new_name", "comment", "owner"} : ~NonEmpty(r, k))
              => /\ calls'[r].meta = 0 /\ calls'[r] = NoCalls
                 /\ (pc[r] = "us_check" /\ pc'[r] # pc[r])
                      => /\ pc'[r] = "returned" /\ ret'[r].kind = "return"
                         /\ ret'[r].value.isError = TRUE
                         /\ store' = store
         /\ (\E k \in {"new_name", "comment", "owner"} : NonEmpty(r, k))
              => /\ (pc[r] = "us_check" /\ pc'[r] # pc[r])
                      => pc'[r] = "md_request" /\ calls'[r] = NoCalls
                 /\ pc'[r] = "done" => calls'[r].meta = 1
         /\ (calls'[r].meta = calls[r].meta + 1 /\ calls'[r].fault = calls[r].fault)
              => /\ Len(store'.schemas) = Len(store.schemas)
                 /\ store'.catalogs = store.catalogs /\ store'.tables = store.tables
                 /\ \A i \in DOMAIN store.schemas :
                      IF store.schemas[i].full_name = req[r].args.full_schema_name
                      THEN /\ store'.schemas[i].name
                                = Sent(r, "new_name", store.schemas[i].name)
                           /\ store'.schemas[i].comment
                                = Sent(r, "comment", store.schemas[i].comment)
                           /\ store'.schemas[i].owner
                                = Sent(r, "owner", store.schemas[i].owner)
                      ELSE store'.schemas[i] = store.schemas[i]]_vars

\* An update with an empty comment and an owner, served: the schema has the
\* new owner and the comment it had.
C34_Witness ==
  \E r \in Conns :
    /\ IsUpdate(r) /\ pc[r] = "done"
    /\ req[r].args.comment = "" /\ req[r].args.owner = "me"
    /\ calls[r].meta = 1 /\ calls[r].fault = 0
    /\ \E i \in DOMAIN store.schemas :
         /\ store.schemas[i].full_name = "main.s2"
         /\ store.schemas[i].owner = "me" /\ store.schemas[i].comment = "second"
====
